---- MODULE Spec2Model ----
(***************************************************************************)
(* Model of the sage-copilot RAG application: the document embedder        *)
(* (src/src/embeddings.py), the REST API (src/backend/app.py), the         *)
(* Nextcloud webhook receiver (src/webhooks.py) and the chat UI            *)
(* (src/app.py).                                                           *)
(*                                                                         *)
(* Strings are sequences of tokens.  A token is an indivisible piece of    *)
(* text ("/", ".", "txt", "TXT", ...); concatenation of strings is \o.     *)
(* Paths are strings; a file name is the part of a path after its last     *)
(* "/".                                                                    *)
(***************************************************************************)
EXTENDS Integers, Sequences, FiniteSets, Bags, TLC

VARIABLES
    fs,          \* the filesystem: path -> [kind, loadable, nchunks, size]
    store,       \* the Chroma collection DEFAULT_COLLECTION: a bag of chunks
    collections, \* names of the collections that exist in the vector database
    api,         \* REST API: trace and response of the last request handled
    hook,        \* webhook service: trace and response of the last request
    messages,    \* chat UI: st.session_state.messages
    chat,        \* chat UI: position of the script run and its trace
    ghost,       \* history: successful embed calls and their additions
    statsRun     \* GET /files/stats: position of get_file_stats in its walk

vars == <<fs, store, collections, api, hook, messages, chat, ghost, statsRun>>

----------------------------------------------------------------------------
(* Bounds of the model.                                                    *)

\* the largest number of chunks the text of one file splits into
MaxChunks == 1
\* the largest number of requests one service handles in a run
MaxRequests == 2
\* the largest number of prompts submitted in one chat session
MaxPrompts == 3

----------------------------------------------------------------------------
(* Configuration: src/backend/src/config.py                                *)

NEXTCLOUD_PATH == <<"/", "home", "/", "deck", "/", "Documents", "/", "Books">>
DEFAULT_COLLECTION == "documents"

----------------------------------------------------------------------------
(* Strings and paths.                                                      *)

RECURSIVE LastIndexOf(_, _, _)
\* the largest i <= from with s[i] = t, or 0: str.rfind
LastIndexOf(s, t, from) ==
    IF from = 0 THEN 0
    ELSE IF s[from] = t THEN from ELSE LastIndexOf(s, t, from - 1)

\* Path.name: the final component of a path
Name(p) == SubSeq(p, LastIndexOf(p, "/", Len(p)) + 1, Len(p))

\* one piece of text in lower case: str.lower on the pieces the model uses
LowerTok(t) ==
    CASE t = "TXT" -> "txt"
      [] t = "PDF" -> "pdf"
      [] t = "MD"  -> "md"
      [] OTHER     -> t

\* str.lower
Lower(s) == [i \in 1..Len(s) |-> LowerTok(s[i])]

\* Path.suffix: from the last "." of the name on, unless that "." is the
\* first or the last character of the name
Suffix(p) ==
    LET name == Name(p)
        i    == LastIndexOf(name, ".", Len(name))
    IN  IF 1 < i /\ i < Len(name) THEN SubSeq(name, i, Len(name)) ELSE <<>>

\* whether path p lies strictly below directory d
IsUnder(p, d) ==
    /\ Len(p) > Len(d) + 1
    /\ SubSeq(p, 1, Len(d)) = d
    /\ p[Len(d) + 1] = "/"

----------------------------------------------------------------------------
(* The filesystem.                                                         *)

UserFiles == NEXTCLOUD_PATH \o <<"/", "u", "/", "files">>
FileA   == UserFiles \o <<"/", "a", ".", "txt">>
FileB   == UserFiles \o <<"/", "b", ".", "TXT">>
FileX   == UserFiles \o <<"/", "notes", ".", "exe">>
FileH   == UserFiles \o <<"/", ".", "pdf">>
DirD    == UserFiles \o <<"/", "arch", ".", "docx">>
DirS    == UserFiles \o <<"/", "sub">>
FileC   == DirS \o <<"/", "c", ".", "md">>

\* every path that may exist, in the order a walk meets them
WalkOrder ==
    << NEXTCLOUD_PATH \o <<"/", "u">>, UserFiles,
       FileA, FileB, FileX, FileH, DirD, DirS, FileC >>

Paths == {WalkOrder[i] : i \in 1..Len(WalkOrder)} \cup {NEXTCLOUD_PATH}

Absent      == [kind |-> "absent", loadable |-> FALSE, nchunks |-> 0, size |-> 0]
Directory   == [kind |-> "dir", loadable |-> FALSE, nchunks |-> 0, size |-> 0]
\* a regular file that the partitioning library cannot parse
BadFile     == [kind |-> "file", loadable |-> FALSE, nchunks |-> 0, size |-> 3]
\* a regular file whose text splits into n chunks
GoodFile(n) == [kind |-> "file", loadable |-> TRUE, nchunks |-> n, size |-> n]

FileStates == {Absent, BadFile} \cup {GoodFile(n) : n \in 0..MaxChunks}

FileSystems ==
    { [p \in Paths |->
          CASE p = FileA -> a
            [] p = FileB -> b
            [] p = FileC -> c
            [] p = FileX -> GoodFile(1)
            [] p = FileH -> GoodFile(1)
            [] OTHER     -> Directory ] :
      a \in FileStates, b \in {Absent, GoodFile(1)}, c \in {Absent, BadFile, GoodFile(1)} }

Exists(p) == p \in DOMAIN fs /\ fs[p].kind # "absent"
IsDir(p)  == Exists(p) /\ fs[p].kind = "dir"
IsFile(p) == Exists(p) /\ fs[p].kind = "file"

\* Path.rglob('*'): every existing path below d
Rglob(d) ==
    IF IsDir(d) THEN SelectSeq(WalkOrder, LAMBDA p : IsUnder(p, d) /\ Exists(p))
    ELSE <<>>

----------------------------------------------------------------------------
(* The vector database: src/backend/src/get_vector_db.py                   *)

\* a database handle; get_vector_db() opens the collection DEFAULT_COLLECTION,
\* creating it when it does not exist
get_vector_db(colls) == colls \cup {DEFAULT_COLLECTION}

\* the bag holding one copy of every element of sequence s
RECURSIVE BagOfSeq(_)
BagOfSeq(s) ==
    IF s = <<>> THEN EmptyBag ELSE SetToBag({Head(s)}) (+) BagOfSeq(Tail(s))

\* add_documents as it would be with deduplication: a chunk the collection
\* already holds is not stored again
add_documents_Dedup(st, chunks) ==
    st (+) SetToBag({c \in BagToSet(BagOfSeq(chunks)) : ~BagIn(c, st)})

\* db.add_documents(chunks): every chunk is stored under a fresh id, so a
\* chunk the collection already holds is stored once more
add_documents(st, chunks) == st (+) BagOfSeq(chunks)

----------------------------------------------------------------------------
(* The document embedder: src/src/embeddings.py                            *)

supported_extensions ==
    { <<".", "pdf">>, <<".", "docx">>, <<".", "doc">>, <<".", "txt">>,
      <<".", "md">>, <<".", "html">>, <<".", "htm">>, <<".", "rtf">>,
      <<".", "odt">>, <<".", "csv">>, <<".", "xlsx">>, <<".", "xls">>,
      <<".", "pptx">>, <<".", "ppt">> }

\* is_supported_file as it would be without .lower()
is_supported_file_CaseSensitive(p) == Suffix(p) \in supported_extensions

is_supported_file(p) == Lower(Suffix(p)) \in supported_extensions

\* partition(filename) raises for a path that is missing, is a directory or
\* cannot be parsed; the except clause turns that into the empty list
load_document(p) ==
    IF IsFile(p) /\ fs[p].loadable
    THEN << [source    |-> p,
             filename  |-> Name(p),
             file_type |-> Lower(Suffix(p)),
             file_size |-> fs[p].size,
             content   |-> fs[p].nchunks] >>
    ELSE <<>>

\* the chunks of one document: its text, measured in chunks
ChunksOf(doc) ==
    [i \in 1..doc.content |->
        [source |-> doc.source, filename |-> doc.filename,
         file_type |-> doc.file_type, idx |-> i]]

RECURSIVE SplitDocuments(_)
SplitDocuments(docs) ==
    IF docs = <<>> THEN <<>>
    ELSE ChunksOf(Head(docs)) \o SplitDocuments(Tail(docs))

\* chunk_documents: splitOk = FALSE is the text splitter raising
chunk_documents(docs, splitOk) ==
    IF splitOk THEN SplitDocuments(docs) ELSE <<>>

\* the loop of process_directory over the walk: the files load_document was
\* called on, the documents collected, and processed_files
RECURSIVE WalkLoad(_, _)
WalkLoad(walk, acc) ==
    IF walk = <<>> THEN acc
    ELSE LET p == Head(walk) IN
         IF IsFile(p) /\ is_supported_file(p)
         THEN LET documents == load_document(p) IN
              WalkLoad(Tail(walk),
                  [loaded          |-> Append(acc.loaded, p),
                   all_documents   |-> IF documents # <<>>
                                       THEN acc.all_documents \o documents
                                       ELSE acc.all_documents,
                   processed_files |-> IF documents # <<>>
                                       THEN acc.processed_files + 1
                                       ELSE acc.processed_files])
         ELSE WalkLoad(Tail(walk), acc)

NoWalk == [loaded |-> <<>>, all_documents |-> <<>>, processed_files |-> 0]

\* the path process_directory and get_file_stats work on
None == << "<None>" >>
DirOf(directory_path) ==
    IF directory_path = None THEN NEXTCLOUD_PATH ELSE directory_path

\* process_directory: fault = "split" is the text splitter raising
process_directory(directory_path, fault) ==
    LET dir_path == DirOf(directory_path) IN
    IF ~Exists(dir_path) \/ ~IsDir(dir_path)
    THEN [chunks |-> <<>>, loaded |-> <<>>, processed_files |-> 0]
    ELSE LET w == WalkLoad(Rglob(dir_path), NoWalk) IN
         [chunks          |-> IF w.all_documents # <<>>
                              THEN chunk_documents(w.all_documents, fault # "split")
                              ELSE <<>>,
          loaded          |-> w.loaded,
          processed_files |-> w.processed_files]

Faults == {"none", "split", "open", "add", "persist"}

\* embed_documents as it would be without the "if not chunks" check
embed_documents_NoEmptyCheck(directory_path, fault, hasPersist, st, colls) ==
    LET pd == process_directory(directory_path, fault)
        base == [raised |-> FALSE, chunks |-> pd.chunks, loaded |-> pd.loaded,
                 ret |-> FALSE, opened |-> 0, addCalled |-> FALSE,
                 addDone |-> FALSE, persistDone |-> FALSE,
                 store |-> st, collections |-> colls]
    IN  IF fault = "open" THEN [base EXCEPT !.opened = 1]
        ELSE LET opened == [base EXCEPT !.opened = 1,
                                        !.collections = get_vector_db(colls),
                                        !.addCalled = TRUE]
             IN  IF fault = "add" THEN opened
                 ELSE LET added == [opened EXCEPT
                                       !.store = add_documents(st, pd.chunks),
                                       !.addDone = TRUE]
                      IN  IF hasPersist /\ fault = "persist" THEN added
                          ELSE [added EXCEPT !.ret = TRUE,
                                             !.persistDone = hasPersist]

\* embed_documents on store st and collections colls.  fault names the call
\* that raises, if any; hasPersist is hasattr(db, 'persist').
embed_documents(directory_path, fault, hasPersist, st, colls) ==
    LET pd == process_directory(directory_path, fault)
        base == [raised |-> FALSE, chunks |-> pd.chunks, loaded |-> pd.loaded,
                 ret |-> FALSE, opened |-> 0, addCalled |-> FALSE,
                 addDone |-> FALSE, persistDone |-> FALSE,
                 store |-> st, collections |-> colls]
    IN  IF pd.chunks = <<>> THEN base
        ELSE IF fault = "open" THEN [base EXCEPT !.opened = 1]
        ELSE LET opened == [base EXCEPT !.opened = 1,
                                        !.collections = get_vector_db(colls),
                                        !.addCalled = TRUE]
             IN  IF fault = "add" THEN opened
                 ELSE LET added == [opened EXCEPT
                                       !.store = add_documents(st, pd.chunks),
                                       !.addDone = TRUE]
                      IN  IF hasPersist /\ fault = "persist" THEN added
                          ELSE [added EXCEPT !.ret = TRUE,
                                             !.persistDone = hasPersist]

\* get_file_stats as it would be with ext = file_path.suffix
StatsVisit_NoLower(stats, p) ==
    IF IsFile(p)
    THEN LET counted == [stats EXCEPT
                            !.total_files = @ + 1,
                            !.total_size = @ + fs[p].size]
             ext == Suffix(p)
         IN  IF is_supported_file(p)
             THEN [counted EXCEPT
                      !.supported_files = @ + 1,
                      !.file_types =
                          IF ext \in DOMAIN @
                          THEN [@ EXCEPT ![ext] = @ + 1]
                          ELSE [e \in DOMAIN @ \cup {ext} |->
                                   IF e = ext THEN 1 ELSE @[e]]]
             ELSE counted
    ELSE stats

\* one turn of the loop of get_file_stats, on path p
StatsVisit(stats, p) ==
    IF IsFile(p)
    THEN LET counted == [stats EXCEPT
                            !.total_files = @ + 1,
                            !.total_size = @ + fs[p].size]
             ext == Lower(Suffix(p))
         IN  IF is_supported_file(p)
             THEN [counted EXCEPT
                      !.supported_files = @ + 1,
                      !.file_types =
                          IF ext \in DOMAIN @
                          THEN [@ EXCEPT ![ext] = @ + 1]
                          ELSE [e \in DOMAIN @ \cup {ext} |->
                                   IF e = ext THEN 1 ELSE @[e]]]
             ELSE counted
    ELSE stats

\* the loop of get_file_stats over the walk
RECURSIVE WalkStats(_, _)
WalkStats(walk, stats) ==
    IF walk = <<>> THEN stats
    ELSE WalkStats(Tail(walk), StatsVisit(stats, Head(walk)))

NoStats == [total_files |-> 0, supported_files |-> 0,
            file_types |-> <<>>, total_size |-> 0]

\* get_file_stats; the result for a missing path carries only "error"
get_file_stats(directory_path) ==
    LET dir_path == DirOf(directory_path) IN
    IF ~Exists(dir_path)
    THEN [error |-> <<"Directory does not exist">>]
    ELSE WalkStats(Rglob(dir_path), NoStats)

----------------------------------------------------------------------------
(* Exceptions and responses.                                               *)

HTTPException(status_code, detail) ==
    [type |-> "HTTPException", status_code |-> status_code, detail |-> detail]
Error(text) == [type |-> "Exception", status_code |-> 0, detail |-> text]

\* isinstance(e, cls): HTTPException is a subclass of Exception
IsInstance(e, cls) == cls = "Exception" \/ e.type = cls

\* str(status_code)
StatusText(status_code) ==
    CASE status_code = 400 -> "400"
      [] status_code = 500 -> "500"
      [] status_code = 501 -> "501"
      [] OTHER             -> "?"

\* str(e): an HTTPException prints as "<status_code>: <detail>"
StrOf(e) ==
    IF e.type = "HTTPException"
    THEN <<StatusText(e.status_code), ": ">> \o e.detail
    ELSE e.detail

NoBody == [message |-> <<>>]
NoExc  == [type |-> "none", status_code |-> 0, detail |-> <<>>]

\* what a handler's body ends with: a returned value or a raised exception
Return(value) == [raised |-> FALSE, exc |-> NoExc, value |-> value]
Raise(exc)    == [raised |-> TRUE, exc |-> exc, value |-> NoBody]

\* what the client receives: FastAPI answers a raised HTTPException with
\* its status code and detail, and any other exception with status 500
Respond(outcome) ==
    IF ~outcome.raised
    THEN [status_code |-> 200, detail |-> <<>>, body |-> outcome.value]
    ELSE IF outcome.exc.type = "HTTPException"
    THEN [status_code |-> outcome.exc.status_code, detail |-> outcome.exc.detail,
          body |-> NoBody]
    ELSE [status_code |-> 500, detail |-> <<"Internal Server Error">>,
          body |-> NoBody]

\* dict.get(key, default) on the result of get_file_stats
StatsGet(stats, key, default) ==
    IF key \in DOMAIN stats THEN stats[key] ELSE default

----------------------------------------------------------------------------
(* The REST API: src/backend/app.py                                        *)

\* POST /ingest: the outcome of the handler, given the result e of
\* embedder.embed_documents
ingest_documents(directory_path, e) ==
    LET tried ==
            IF ~e.ret
            THEN Raise(HTTPException(400, <<"Failed to ingest documents">>))
            ELSE LET stats_after == get_file_stats(directory_path) IN
                 Return([message |-> <<"Documents ingested successfully">>,
                         files_processed |->
                             StatsGet(stats_after, "supported_files", 0),
                         chunks_created |-> 0])
    IN  \* except Exception as e
        IF tried.raised /\ IsInstance(tried.exc, "Exception")
        THEN Raise(HTTPException(500,
                 <<"Ingestion failed: ">> \o StrOf(tried.exc)))
        ELSE tried

IsSpace(t) == t \in {" ", "\t", "\n"}

RECURSIVE LStrip(_)
LStrip(s) == IF s # <<>> /\ IsSpace(Head(s)) THEN LStrip(Tail(s)) ELSE s

RECURSIVE RStrip(_)
RStrip(s) ==
    IF s # <<>> /\ IsSpace(s[Len(s)]) THEN RStrip(SubSeq(s, 1, Len(s) - 1))
    ELSE s

\* str.strip()
Strip(s) == RStrip(LStrip(s))

\* what src.llm_query.query does when called: it returns a text, the empty
\* text or None, or it raises
QueryOutcomes ==
    { [kind |-> "text", text |-> <<"answer">>],
      [kind |-> "text", text |-> <<>>],
      [kind |-> "none", text |-> <<>>],
      [kind |-> "raise", text |-> <<"boom">>] }

\* the truth value of a query result: None and the empty text are false
Truthy(o) == o.kind = "text" /\ o.text # <<>>

\* query_documents as it would be with "if not request.query"
query_documents_NoStrip(query, o) ==
    LET tried ==
            IF query = <<>>
            THEN [calls |-> 0,
                  out |-> Raise(HTTPException(400, <<"Query cannot be empty">>))]
            ELSE IF o.kind = "raise"
            THEN [calls |-> 1, out |-> Raise(Error(o.text))]
            ELSE IF ~Truthy(o)
            THEN [calls |-> 1,
                  out |-> Raise(HTTPException(500,
                              <<"Failed to generate response">>))]
            ELSE [calls |-> 1,
                  out |-> Return([message |-> o.text, sources |-> None])]
    IN  IF tried.out.raised /\ IsInstance(tried.out.exc, "HTTPException")
        THEN tried
        ELSE IF tried.out.raised /\ IsInstance(tried.out.exc, "Exception")
        THEN [tried EXCEPT !.out =
                 Raise(HTTPException(500,
                     <<"Query failed: ">> \o StrOf(tried.out.exc)))]
        ELSE tried

\* query_documents as it would be without "except HTTPException: raise"
query_documents_NoReraise(query, o) ==
    LET tried ==
            IF Strip(query) = <<>>
            THEN [calls |-> 0,
                  out |-> Raise(HTTPException(400, <<"Query cannot be empty">>))]
            ELSE IF o.kind = "raise"
            THEN [calls |-> 1, out |-> Raise(Error(o.text))]
            ELSE IF ~Truthy(o)
            THEN [calls |-> 1,
                  out |-> Raise(HTTPException(500,
                              <<"Failed to generate response">>))]
            ELSE [calls |-> 1,
                  out |-> Return([message |-> o.text, sources |-> None])]
    IN  IF tried.out.raised /\ IsInstance(tried.out.exc, "Exception")
        THEN [tried EXCEPT !.out =
                 Raise(HTTPException(500,
                     <<"Query failed: ">> \o StrOf(tried.out.exc)))]
        ELSE tried

\* POST /query: the outcome of the handler and the number of calls of the
\* query function; o is what the query function does when called
query_documents(query, o) ==
    LET tried ==
            IF Strip(query) = <<>>
            THEN [calls |-> 0,
                  out |-> Raise(HTTPException(400, <<"Query cannot be empty">>))]
            ELSE IF o.kind = "raise"
            THEN [calls |-> 1, out |-> Raise(Error(o.text))]
            ELSE IF ~Truthy(o)
            THEN [calls |-> 1,
                  out |-> Raise(HTTPException(500,
                              <<"Failed to generate response">>))]
            ELSE [calls |-> 1,
                  out |-> Return([message |-> o.text, sources |-> None])]
    IN  \* except HTTPException: raise
        IF tried.out.raised /\ IsInstance(tried.out.exc, "HTTPException")
        THEN tried
        \* except Exception as e
        ELSE IF tried.out.raised /\ IsInstance(tried.out.exc, "Exception")
        THEN [tried EXCEPT !.out =
                 Raise(HTTPException(500,
                     <<"Query failed: ">> \o StrOf(tried.out.exc)))]
        ELSE tried

\* Chroma.delete_collection(): deletes the collection the handle was opened
\* on, which is DEFAULT_COLLECTION
db_delete_collection(colls) == colls \ {DEFAULT_COLLECTION}

DeleteFaults == {"none", "open", "delete"}

\* DELETE /collections/{collection_name}: the outcome of the handler and
\* the database after it.  hasDelete is hasattr(db, 'delete_collection').
delete_collection(collection_name, fault, hasDelete, st, colls) ==
    LET tried ==
            IF fault = "open"
            THEN [out |-> Raise(Error(<<"db error">>)),
                  store |-> st, collections |-> colls]
            ELSE IF ~hasDelete
            THEN [out |-> Raise(HTTPException(501,
                              <<"Collection deletion not implemented">>)),
                  store |-> st, collections |-> get_vector_db(colls)]
            ELSE IF fault = "delete"
            THEN [out |-> Raise(Error(<<"db error">>)),
                  store |-> st, collections |-> get_vector_db(colls)]
            ELSE [out |-> Return([message |->
                              <<"Collection '", collection_name,
                                "' deleted successfully">>]),
                  store |-> EmptyBag,
                  collections |-> db_delete_collection(get_vector_db(colls))]
    IN  \* except Exception as e
        IF tried.out.raised /\ IsInstance(tried.out.exc, "Exception")
        THEN [tried EXCEPT !.out =
                 Raise(HTTPException(500,
                     <<"Failed to delete collection: ">>
                         \o StrOf(tried.out.exc)))]
        ELSE tried

----------------------------------------------------------------------------
(* The webhook service: src/webhooks.py                                    *)

NodeCreatedEvent == "OCP\\Files\\Events\\Node\\NodeCreatedEvent"
NodeWrittenEvent == "OCP\\Files\\Events\\Node\\NodeWrittenEvent"

\* A JSON payload.  event, node and user are "absent" (the key is missing),
\* "object" (a JSON object) or "other" (null, a number, a text, a list);
\* class is a text or "absent"; path and uid are a text, or JAbsent (the key
\* is missing), or JOther (a JSON value that is no text).
JAbsent == << "<absent>" >>
JOther  == << "<other>" >>

NcPaths ==
    { <<"/", "u", "/", "files", "/", "a", ".", "txt">>,
      <<"/", "u", "/", "files", "/", "notes", ".", "exe">>,
      <<"/", "u", "/", "files", "/", "arch", ".", "docx">>,
      <<"/", "etc", "/", "x", ".", "txt">> }

EventParts ==
    { [event |-> "absent", class |-> "absent", node |-> "absent", path |-> JAbsent],
      [event |-> "other", class |-> "absent", node |-> "absent", path |-> JAbsent] }
    \cup
    { [event |-> "object", class |-> c, node |-> n, path |-> JAbsent] :
        c \in {NodeCreatedEvent, NodeWrittenEvent, "absent"},
        n \in {"absent", "other", "object"} }
    \cup
    { [event |-> "object", class |-> c, node |-> "object", path |-> p] :
        c \in {NodeCreatedEvent, NodeWrittenEvent, "absent"},
        p \in NcPaths \cup {JOther} }

UserParts ==
    { [user |-> "absent", uid |-> JAbsent], [user |-> "other", uid |-> JAbsent],
      [user |-> "object", uid |-> JAbsent], [user |-> "object", uid |-> <<"u">>] }

Payloads ==
    { [event |-> e.event, class |-> e.class, node |-> e.node, path |-> e.path,
       user |-> u.user, uid |-> u.uid] : e \in EventParts, u \in UserParts }

\* str.replace(old, new) for a non-empty old
RECURSIVE Replace(_, _, _)
Replace(s, old, new) ==
    IF Len(s) < Len(old) THEN s
    ELSE IF SubSeq(s, 1, Len(old)) = old
    THEN new \o Replace(SubSeq(s, Len(old) + 1, Len(s)), old, new)
    ELSE <<Head(s)>> \o Replace(Tail(s), old, new)

\* os.path.join(a, b)
PathJoin(a, b) ==
    IF b # <<>> /\ Head(b) = "/" THEN b
    ELSE IF a = <<>> \/ a[Len(a)] = "/" THEN a \o b
    ELSE a \o <<"/">> \o b

convert_nextcloud_path_to_filesystem(nc_path, user_id) ==
    LET relative_path ==
            Replace(nc_path, <<"/">> \o user_id \o <<"/", "files", "/">>, <<>>)
        base_path == NEXTCLOUD_PATH \o <<"/">> \o user_id \o <<"/", "files">>
    IN  PathJoin(base_path, relative_path)

\* Path(s): repeated and trailing separators are dropped
RECURSIVE PathOf(_)
PathOf(s) ==
    IF Len(s) <= 1 THEN s
    ELSE IF s[Len(s)] = "/" THEN PathOf(SubSeq(s, 1, Len(s) - 1))
    ELSE IF Head(s) = "/" /\ s[2] = "/" THEN PathOf(Tail(s))
    ELSE <<Head(s)>> \o PathOf(Tail(s))

HookFaults == {"none", "split", "open", "add"}

NoHandle ==
    [called |-> FALSE, file_path |-> <<>>, loadCalled |-> FALSE,
     documents |-> <<>>, chunks |-> <<>>, opened |-> 0,
     addCalled |-> FALSE, addDone |-> FALSE, raised |-> FALSE]

\* handle_file_created as it would be without the is_supported_file check
handle_file_created_NoTypeCheck(file_path, fault, st, colls) ==
    LET file_path_obj == PathOf(file_path)
        t0 == [NoHandle EXCEPT !.called = TRUE, !.file_path = file_path]
        failed(t, text) ==
            [trace |-> t,
             value |-> [status |-> "failed",
                        file |-> <<"Failed to process file: ">> \o text],
             store |-> st, collections |-> colls]
    IN  IF ~Exists(file_path_obj)
        THEN failed(t0, <<"File does not exist: ">> \o file_path)
        ELSE LET documents == load_document(file_path_obj)
                 t1 == [t0 EXCEPT !.loadCalled = TRUE, !.documents = documents]
             IN  IF documents = <<>>
                 THEN failed(t1, <<"Failed to load document">>)
                 ELSE LET chunks == chunk_documents(documents, fault # "split")
                          t2 == [t1 EXCEPT !.chunks = chunks, !.opened = 1]
                      IN  IF fault = "open"
                          THEN failed(t2, <<"db error">>)
                          ELSE IF fault = "add"
                          THEN [failed([t2 EXCEPT !.addCalled = TRUE],
                                       <<"db error">>)
                                   EXCEPT !.collections = get_vector_db(colls)]
                          ELSE [trace |-> [t2 EXCEPT !.addCalled = TRUE,
                                                     !.addDone = TRUE],
                                value |-> [status |-> "success",
                                           file |-> file_path],
                                store |-> add_documents(st, chunks),
                                collections |-> get_vector_db(colls)]

\* handle_file_created on store st and collections colls: the trace of the
\* call, the value returned and the database after it
handle_file_created(file_path, fault, st, colls) ==
    LET file_path_obj == PathOf(file_path)
        t0 == [NoHandle EXCEPT !.called = TRUE, !.file_path = file_path]
        failed(t, text) ==
            [trace |-> t,
             value |-> [status |-> "failed",
                        file |-> <<"Failed to process file: ">> \o text],
             store |-> st, collections |-> colls]
    IN  IF ~Exists(file_path_obj)
        THEN failed(t0, <<"File does not exist: ">> \o file_path)
        ELSE IF ~is_supported_file(file_path_obj)
        THEN [trace |-> t0,
              value |-> [status |-> "failed",
                         file |-> <<"File type not supported: ">>
                                      \o Suffix(file_path_obj)],
              store |-> st, collections |-> colls]
        ELSE LET documents == load_document(file_path_obj)
                 t1 == [t0 EXCEPT !.loadCalled = TRUE, !.documents = documents]
             IN  IF documents = <<>>
                 THEN failed(t1, <<"Failed to load document">>)
                 ELSE LET chunks == chunk_documents(documents, fault # "split")
                          t2 == [t1 EXCEPT !.chunks = chunks, !.opened = 1]
                      IN  IF fault = "open"
                          THEN failed(t2, <<"db error">>)
                          ELSE IF fault = "add"
                          THEN [failed([t2 EXCEPT !.addCalled = TRUE],
                                       <<"db error">>)
                                   EXCEPT !.collections = get_vector_db(colls)]
                          ELSE [trace |-> [t2 EXCEPT !.addCalled = TRUE,
                                                     !.addDone = TRUE],
                                value |-> [status |-> "success",
                                           file |-> file_path],
                                store |-> add_documents(st, chunks),
                                collections |-> get_vector_db(colls)]

\* nextcloud_webhook as it would be with the NodeWrittenEvent branch enabled
nextcloud_webhook_Written(payload, fault, st, colls) ==
    LET error == [trace |-> NoHandle,
                  value |-> [status |-> "error",
                             message |-> <<"AttributeError">>],
                  store |-> st, collections |-> colls]
        event_type == IF payload.class = "absent" THEN "" ELSE payload.class
        file_path  == IF payload.path = JAbsent THEN <<>> ELSE payload.path
        user_id    == IF payload.uid = JAbsent THEN <<>> ELSE payload.uid
    IN  IF payload.event = "other" \/ payload.node = "other"
           \/ payload.user = "other"
        THEN error
        ELSE IF payload.path = JOther
        THEN error
        ELSE LET actual_file_path ==
                     convert_nextcloud_path_to_filesystem(file_path, user_id)
             IN  IF event_type \in {NodeCreatedEvent, NodeWrittenEvent}
                 THEN handle_file_created(actual_file_path, fault, st, colls)
                 ELSE [trace |-> NoHandle,
                       value |-> [status |-> "ignored",
                                  reason |-> <<"Event type not handled">>],
                       store |-> st, collections |-> colls]

\* POST /webhook/nextcloud
nextcloud_webhook(payload, fault, st, colls) ==
    LET error == [trace |-> NoHandle,
                  value |-> [status |-> "error",
                             message |-> <<"AttributeError">>],
                  store |-> st, collections |-> colls]
        \* payload.get("event", {}).get("class", "")
        event_type == IF payload.class = "absent" THEN "" ELSE payload.class
        \* payload.get("event", {}).get("node", {}).get("path", "")
        file_path  == IF payload.path = JAbsent THEN <<>> ELSE payload.path
        \* payload.get("user", {}).get("uid", "")
        user_id    == IF payload.uid = JAbsent THEN <<>> ELSE payload.uid
    IN  IF payload.event = "other" \/ payload.node = "other"
           \/ payload.user = "other"
        THEN error     \* .get on a value that is no object
        ELSE IF payload.path = JOther
        THEN error     \* .replace on a value that is no text
        ELSE LET actual_file_path ==
                     convert_nextcloud_path_to_filesystem(file_path, user_id)
             IN  IF event_type = NodeCreatedEvent
                 THEN handle_file_created(actual_file_path, fault, st, colls)
                 ELSE [trace |-> NoHandle,
                       value |-> [status |-> "ignored",
                                  reason |-> <<"Event type not handled">>],
                       store |-> st, collections |-> colls]

----------------------------------------------------------------------------
(* The chat UI: src/app.py                                                 *)

\* A message is its role and content; the timestamp, which nothing reads
\* back, is left out.
Prompts == { <<"q1">>, <<"q2">> }

NotFoundMsg ==
    << "I couldn't find relevant information to answer your question. Please try rephrasing or check if your files are properly indexed." >>

\* the message the script appends after rag_query(prompt) did o
AssistantMessage(o) ==
    IF o.kind = "raise"
    THEN [role |-> "assistant",
          content |-> <<"Sorry, I encountered an error: ">> \o o.text]
    ELSE IF Truthy(o)
    THEN [role |-> "assistant", content |-> o.text]
    ELSE [role |-> "assistant", content |-> NotFoundMsg]

----------------------------------------------------------------------------
(* Initial state and actions.                                              *)

IngestPaths == {None, DirS, FileA}
IngestDirs  == {DirOf(d) : d \in IngestPaths}
CollectionNames == {DEFAULT_COLLECTION, "other"}

NoEmbed ==
    [raised |-> FALSE, chunks |-> <<>>, loaded |-> <<>>, ret |-> FALSE,
     opened |-> 0, addCalled |-> FALSE, addDone |-> FALSE,
     persistDone |-> FALSE, store |-> EmptyBag, collections |-> {}]

ApiIdle ==
    [n |-> 0, op |-> "none", directory_path |-> None, fault |-> "none",
     hasPersist |-> FALSE, embed |-> NoEmbed,
     query |-> <<>>, outcome |-> [kind |-> "none", text |-> <<>>], calls |-> 0,
     collection_name |-> "", hasDelete |-> FALSE, deleted |-> {},
     storeBefore |-> EmptyBag, collsBefore |-> {},
     resp |-> [status_code |-> 0, detail |-> <<>>, body |-> NoBody]]

HookIdle ==
    [n |-> 0, op |-> "none", payload |-> [event |-> "absent"], fault |-> "none",
     trace |-> NoHandle, value |-> [status |-> "none"],
     storeBefore |-> EmptyBag, collsBefore |-> {}]

ChatIdle == [pc |-> "idle", prompt |-> <<>>, n |-> 0]

StatsIdle ==
    [pc |-> "idle", directory_path |-> None, todo |-> <<>>, counted |-> <<>>,
     stats |-> NoStats, result |-> NoStats]

Init ==
    /\ fs \in FileSystems
    /\ store = EmptyBag
    /\ collections = {DEFAULT_COLLECTION}
    /\ api = ApiIdle
    /\ hook = HookIdle
    /\ messages = <<>>
    /\ chat = ChatIdle
    /\ ghost = [okCalls |-> [d \in IngestDirs |-> 0],
                okAdds  |-> [d \in IngestDirs |-> 0]]
    /\ statsRun = StatsIdle

\* POST /ingest
Ingest ==
    /\ api.n < MaxRequests
    /\ \E directory_path \in IngestPaths, hasPersist \in BOOLEAN,
          fault \in Faults :
         /\ fault = "persist" => hasPersist
         /\ LET e   == embed_documents(directory_path, fault, hasPersist,
                                       store, collections)
                out == ingest_documents(directory_path, e)
                d   == DirOf(directory_path)
            IN  /\ store' = e.store
                /\ collections' = e.collections
                /\ api' = [ApiIdle EXCEPT
                              !.n = api.n + 1, !.op = "ingest",
                              !.directory_path = directory_path,
                              !.fault = fault, !.hasPersist = hasPersist,
                              !.embed = e,
                              !.storeBefore = store, !.collsBefore = collections,
                              !.resp = Respond(out)]
                /\ ghost' = IF e.ret
                            THEN [ghost EXCEPT
                                     !.okCalls[d] = @ + 1,
                                     !.okAdds[d] = @ + BagCardinality(e.store)
                                                     - BagCardinality(store)]
                            ELSE ghost
    /\ UNCHANGED <<fs, hook, messages, chat, statsRun>>

\* the texts of at most n characters over " ", tab and "q"
MaxQueryLen == 2
Queries == UNION { [1..k -> {" ", "\t", "q"}] : k \in 0..MaxQueryLen }

\* POST /query
Query ==
    /\ api.n < MaxRequests
    /\ \E query \in Queries, o \in QueryOutcomes :
         \* the query function is not called for a blank query
         /\ Strip(query) = <<>> => o = CHOOSE x \in QueryOutcomes : TRUE
         /\ LET r == query_documents(query, o) IN
            api' = [ApiIdle EXCEPT
                       !.n = api.n + 1, !.op = "query", !.query = query,
                       !.outcome = IF r.calls > 0 THEN o ELSE ApiIdle.outcome,
                       !.calls = r.calls,
                       !.storeBefore = store, !.collsBefore = collections,
                       !.resp = Respond(r.out)]
    /\ UNCHANGED <<fs, store, collections, hook, messages, chat, ghost, statsRun>>

\* DELETE /collections/{collection_name}
DeleteCollection ==
    /\ api.n < MaxRequests
    /\ \E collection_name \in CollectionNames, fault \in DeleteFaults,
          hasDelete \in BOOLEAN :
         LET r == delete_collection(collection_name, fault, hasDelete,
                                    store, collections)
         IN  /\ store' = r.store
             /\ collections' = r.collections
             /\ api' = [ApiIdle EXCEPT
                           !.n = api.n + 1, !.op = "delete",
                           !.collection_name = collection_name,
                           !.fault = fault, !.hasDelete = hasDelete,
                           !.deleted = get_vector_db(collections) \ r.collections,
                           !.storeBefore = store, !.collsBefore = collections,
                           !.resp = Respond(r.out)]
    /\ UNCHANGED <<fs, hook, messages, chat, ghost, statsRun>>

\* POST /webhook/nextcloud
Webhook ==
    /\ hook.n < MaxRequests
    /\ \E payload \in Payloads, fault \in HookFaults :
         \* a fault needs a call of handle_file_created
         /\ payload.class # NodeCreatedEvent => fault = "none"
         /\ LET r == nextcloud_webhook(payload, fault, store, collections) IN
            /\ store' = r.store
            /\ collections' = r.collections
            /\ hook' = [n |-> hook.n + 1, op |-> "webhook", payload |-> payload,
                        fault |-> IF r.trace.loadCalled THEN fault ELSE "none",
                        trace |-> r.trace, value |-> r.value,
                        storeBefore |-> store, collsBefore |-> collections]
    /\ UNCHANGED <<fs, api, messages, chat, ghost, statsRun>>

\* a prompt is submitted: the script records it and calls rag_query
ChatSubmit ==
    /\ chat.pc = "idle"
    /\ chat.n < MaxPrompts
    /\ \E prompt \in Prompts :
         /\ messages' = Append(messages, [role |-> "user", content |-> prompt])
         /\ chat' = [pc |-> "querying", prompt |-> prompt, n |-> chat.n + 1]
    /\ UNCHANGED <<fs, store, collections, api, hook, ghost, statsRun>>

\* ChatRespond as it would be without the else branch for an empty response
ChatRespond_SkipEmpty ==
    /\ chat.pc = "querying"
    /\ \E o \in QueryOutcomes :
         messages' = IF o.kind = "raise" \/ Truthy(o)
                     THEN Append(messages, AssistantMessage(o))
                     ELSE messages
    /\ chat' = [chat EXCEPT !.pc = "idle"]
    /\ UNCHANGED <<fs, store, collections, api, hook, ghost, statsRun>>

\* rag_query returns or raises: the script records the assistant's message
ChatRespond ==
    /\ chat.pc = "querying"
    /\ \E o \in QueryOutcomes :
         messages' = Append(messages, AssistantMessage(o))
    /\ chat' = [chat EXCEPT !.pc = "idle"]
    /\ UNCHANGED <<fs, store, collections, api, hook, ghost, statsRun>>

\* GET /files/stats: get_file_stats is called; a missing path is answered
\* at once, otherwise the walk begins
StatsStart ==
    /\ statsRun.pc = "idle"
    /\ \E directory_path \in IngestPaths :
         statsRun' =
             IF ~Exists(DirOf(directory_path))
             THEN [StatsIdle EXCEPT
                      !.pc = "done", !.directory_path = directory_path,
                      !.result = [error |-> <<"Directory does not exist">>]]
             ELSE [StatsIdle EXCEPT
                      !.pc = "walking", !.directory_path = directory_path,
                      !.todo = Rglob(DirOf(directory_path))]
    /\ UNCHANGED <<fs, store, collections, api, hook, messages, chat, ghost>>

\* one turn of the loop of get_file_stats
StatsStep ==
    /\ statsRun.pc = "walking"
    /\ statsRun.todo # <<>>
    /\ LET p == Head(statsRun.todo) IN
       statsRun' = [statsRun EXCEPT
                       !.todo = Tail(@),
                       !.stats = StatsVisit(@, p),
                       !.counted = IF IsFile(p) THEN Append(@, p) ELSE @]
    /\ UNCHANGED <<fs, store, collections, api, hook, messages, chat, ghost>>

\* the walk is over: get_file_stats returns stats
StatsReturn ==
    /\ statsRun.pc = "walking"
    /\ statsRun.todo = <<>>
    /\ statsRun' = [statsRun EXCEPT !.pc = "done", !.result = statsRun.stats]
    /\ UNCHANGED <<fs, store, collections, api, hook, messages, chat, ghost>>

\* the REST API server
Next == Ingest \/ Query \/ DeleteCollection
Spec == Init /\ [][Next]_vars

\* the webhook service
NextWebhook == Webhook
SpecWebhook == Init /\ [][NextWebhook]_vars

\* a chat session
NextChat == ChatSubmit \/ ChatRespond
SpecChat == Init /\ [][NextChat]_vars

\* a call of get_file_stats, turn by turn
NextStats == StatsStart \/ StatsStep \/ StatsReturn
SpecStats == Init /\ [][NextStats]_vars

----------------------------------------------------------------------------
(* Properties.                                                             *)

\* whether a text is empty or holds only whitespace
Blank(q) == \A i \in 1..Len(q) : q[i] \in {" ", "\t", "\n"}

\* C1: POST /ingest: whenever embed_documents returns False, the client
\* receives status 400 with detail "Failed to ingest documents".
C1_IngestFailureIs400 ==
    (api.op = "ingest" /\ ~api.embed.ret) =>
        /\ api.resp.status_code = 400
        /\ api.resp.detail = <<"Failed to ingest documents">>

\* C2: embed_documents never raises; it returns True exactly when
\* process_directory produced at least one chunk and add_documents (and
\* persist, when the store has it) completed; when process_directory
\* produced no chunk the vector store is neither opened nor modified.
C2_EmbedResult ==
    api.op = "ingest" =>
        LET e == api.embed IN
        /\ ~e.raised
        /\ e.ret <=> /\ Len(e.chunks) >= 1
                     /\ e.addDone
                     /\ api.hasPersist => e.persistDone
        /\ e.ret <=> /\ Len(e.chunks) >= 1
                     /\ api.fault \notin {"open", "add"}
                     /\ ~(api.hasPersist /\ api.fault = "persist")
        /\ Len(e.chunks) = 0 =>
               /\ e.opened = 0
               /\ ~e.addCalled
               /\ store = api.storeBefore
               /\ collections = api.collsBefore

C2_Witness ==
    /\ api.op = "ingest"
    /\ api.embed.ret
    /\ api.hasPersist
    /\ Len(api.embed.chunks) >= 2

\* the chunks an unchanged directory yields
DirChunks(d) == process_directory(d, "none").chunks

\* C3: no deduplication and no incremental re-indexing: every successful
\* embed_documents call adds every chunk of the directory to the store once
\* more, whatever the store holds, so n successful calls on a directory that
\* yields k chunks make n*k chunk additions.
C3_NoDedup ==
    /\ \A d \in IngestDirs :
           ghost.okAdds[d] = ghost.okCalls[d] * Len(DirChunks(d))
    /\ (api.op = "ingest" /\ api.embed.ret) =>
           store = api.storeBefore (+) BagOfSeq(DirChunks(api.directory_path))

C3_Witness ==
    /\ ghost.okCalls[NEXTCLOUD_PATH] = 2
    /\ Len(DirChunks(NEXTCLOUD_PATH)) >= 2
    /\ BagCardinality(store) = 2 * Len(DirChunks(NEXTCLOUD_PATH))

\* C4: POST /query: a query that is empty or only whitespace gets status 400
\* with detail "Query cannot be empty", and the query function is not called.
C4_BlankQuery ==
    (api.op = "query" /\ Blank(api.query)) =>
        /\ api.resp.status_code = 400
        /\ api.resp.detail = <<"Query cannot be empty">>
        /\ api.calls = 0

C4_Witness ==
    /\ api.op = "query"
    /\ api.query = <<" ", "\t">>
    /\ api.resp.status_code = 400

Ignored == [status |-> "ignored", reason |-> <<"Event type not handled">>]

\* the fields of a payload that are present have the types the handler
\* reads them as: event, node and user are objects and path is a text
WellTyped(payload) ==
    /\ payload.event # "other"
    /\ payload.node # "other"
    /\ payload.user # "other"
    /\ payload.path # JOther

\* C5 as stated: for every payload whose event class is not
\* NodeCreatedEvent the response is {"status": "ignored", "reason": "Event
\* type not handled"}, no document is loaded or chunked, and the vector
\* store is unchanged.
C5_Original ==
    (hook.op = "webhook" /\ hook.payload.class # NodeCreatedEvent) =>
        /\ hook.value = Ignored
        /\ ~hook.trace.loadCalled
        /\ store = hook.storeBefore

\* C5: for every payload whose event class is not NodeCreatedEvent, the
\* response is {"status": "ignored", "reason": "Event type not handled"}
\* when the event, node and user fields that are present are objects and
\* the path, if present, is a text, and {"status": "error", ...} otherwise;
\* in both cases no document is loaded or chunked and the vector store is
\* unchanged.
C5_IgnoredOrError ==
    (hook.op = "webhook" /\ hook.payload.class # NodeCreatedEvent) =>
        /\ WellTyped(hook.payload) => hook.value = Ignored
        /\ ~WellTyped(hook.payload) =>
               /\ hook.value.status = "error"
               /\ DOMAIN hook.value = {"status", "message"}
        /\ ~hook.trace.called
        /\ ~hook.trace.loadCalled
        /\ hook.trace.chunks = <<>>
        /\ store = hook.storeBefore
        /\ collections = hook.collsBefore

C5_Witness ==
    /\ hook.op = "webhook"
    /\ hook.payload.class = NodeWrittenEvent
    /\ hook.payload.path = <<"/", "u", "/", "files", "/", "a", ".", "txt">>
    /\ hook.payload.uid = <<"u">>
    /\ IsFile(FileA) /\ fs[FileA].loadable
    /\ hook.value = Ignored
    /\ store # EmptyBag

\* C6: handle_file_created never propagates an exception; it returns status
\* "success" if and only if the file exists, its extension is supported,
\* load_document returned a non-empty list and add_documents completed; in
\* every other case it returns "failed"; when the file does not exist, is
\* unsupported or fails to load, add_documents is not called and the store
\* is unchanged.
C6_HandleFileCreated ==
    hook.trace.called =>
        LET P == PathOf(hook.trace.file_path)
            exists    == P \in Paths /\ fs[P].kind # "absent"
            supported == Lower(Suffix(P)) \in supported_extensions
            loads     == exists /\ fs[P].kind = "file" /\ fs[P].loadable
        IN  /\ ~hook.trace.raised
            /\ hook.value.status \in {"success", "failed"}
            /\ hook.value.status = "success"
                   <=> (exists /\ supported /\ loads /\ hook.trace.addDone)
            /\ hook.value.status = "success"
                   <=> (exists /\ supported /\ loads
                          /\ hook.fault \notin {"open", "add"})
            /\ ~(exists /\ supported /\ loads) =>
                   /\ ~hook.trace.addCalled
                   /\ store = hook.storeBefore

C6_Witness ==
    /\ hook.trace.called
    /\ hook.value.status = "success"
    /\ hook.storeBefore # EmptyBag
    /\ BagCardinality(store) > BagCardinality(hook.storeBefore)

\* C7: chat history: each prompt appends exactly one user message, recorded
\* before the query function is called, then exactly one assistant message,
\* whatever the query function does; the history alternates user, assistant
\* starting with user, its length is twice the number of prompts, and no
\* earlier message is removed, reordered or changed.
C7_HistoryShape ==
    /\ \A i \in 1..Len(messages) :
           messages[i].role = IF i % 2 = 1 THEN "user" ELSE "assistant"
    /\ chat.pc = "idle" => Len(messages) = 2 * chat.n
    /\ chat.pc = "querying" =>
           /\ Len(messages) = 2 * chat.n - 1
           /\ messages[Len(messages)] = [role |-> "user", content |-> chat.prompt]

C7_AppendOnly ==
    /\ Len(messages') >= Len(messages)
    /\ Len(messages') <= Len(messages) + 1
    /\ SubSeq(messages', 1, Len(messages)) = messages

C8_DeletesNamedCollection ==
    (api.op = "delete" /\ api.resp.status_code = 200) =>
        /\ api.resp.body.message =
               <<"Collection '", api.collection_name, "' deleted successfully">>
        /\ api.deleted = {api.collection_name}

\* the regular files below d with a supported extension, upper or lower case
SupportedFilesBelow(d) ==
    {p \in {FileA, FileB, FileC} : IsUnder(p, d) /\ fs[p].kind = "file"}

Range(s) == {s[i] : i \in 1..Len(s)}

\* C9: process_directory: a file whose load fails is skipped without
\* aborting the walk, every other supported file found recursively is still
\* loaded, and the chunks returned come only from regular files with a
\* supported extension (compared case-insensitively) that loaded; for a path
\* that does not exist or is not a directory the result is empty and no file
\* is loaded.
C9_ProcessDirectory ==
    api.op = "ingest" =>
        LET d == DirOf(api.directory_path)
            e == api.embed
        IN  IF fs[d].kind = "dir"
            THEN /\ Range(e.loaded) = SupportedFilesBelow(d)
                 /\ Len(e.loaded) = Cardinality(SupportedFilesBelow(d))
                 /\ \A i \in 1..Len(e.chunks) :
                        /\ e.chunks[i].source \in SupportedFilesBelow(d)
                        /\ fs[e.chunks[i].source].loadable
                 /\ api.fault # "split" =>
                        \A p \in SupportedFilesBelow(d) :
                            Cardinality({i \in 1..Len(e.chunks) :
                                            e.chunks[i].source = p})
                                = IF fs[p].loadable THEN fs[p].nchunks ELSE 0
            ELSE e.loaded = <<>> /\ e.chunks = <<>>

C9_Witness ==
    /\ api.op = "ingest"
    /\ api.directory_path = None
    /\ fs[FileA] = BadFile
    /\ Range(api.embed.loaded) = {FileA, FileB, FileC}
    /\ {api.embed.chunks[i].source : i \in 1..Len(api.embed.chunks)}
           = {FileB, FileC}

\* C10: POST /query with a non-blank query: a non-empty text returned by the
\* query function is the response message, with sources null; an empty or
\* null result gives status 500 "Failed to generate response"; an exception
\* gives status 500 "Query failed: <error text>"; an HTTP error raised in
\* the handler reaches the client with its status code and detail unchanged.
C10_QueryOutcome ==
    (api.op = "query" /\ ~Blank(api.query)) =>
        /\ api.calls = 1
        /\ (api.outcome.kind = "text" /\ api.outcome.text # <<>>) =>
               /\ api.resp.status_code = 200
               /\ api.resp.body = [message |-> api.outcome.text, sources |-> None]
        /\ (api.outcome.kind = "none"
              \/ (api.outcome.kind = "text" /\ api.outcome.text = <<>>)) =>
               /\ api.resp.status_code = 500
               /\ api.resp.detail = <<"Failed to generate response">>
        /\ api.outcome.kind = "raise" =>
               /\ api.resp.status_code = 500
               /\ api.resp.detail = <<"Query failed: ">> \o api.outcome.text

C10_Witness ==
    /\ api.op = "query"
    /\ api.query = <<" ", "q">>
    /\ api.outcome.kind = "none"
    /\ api.resp.status_code = 500
    /\ api.resp.detail = <<"Failed to generate response">>

\* C11: POST /ingest success response: files_processed is the number of
\* files processed by the ingestion, that is the files whose documents were
\* loaded and handed on by that request, and chunks_created is 0.
C11_FilesProcessed ==
    (api.op = "ingest" /\ api.resp.status_code = 200) =>
        /\ api.resp.body.files_processed =
               Cardinality({i \in 1..Len(api.embed.loaded) :
                               fs[api.embed.loaded[i]].loadable})
        /\ api.resp.body.chunks_created = 0

RECURSIVE SumCounts(_, _)
\* the sum of f[k] over the keys k in ks
SumCounts(f, ks) ==
    IF ks = {} THEN 0
    ELSE LET k == CHOOSE x \in ks : TRUE IN f[k] + SumCounts(f, ks \ {k})

RECURSIVE SumSizes(_)
\* the sum of the sizes of the files in sequence ps
SumSizes(ps) == IF ps = <<>> THEN 0 ELSE fs[Head(ps)].size + SumSizes(Tail(ps))

\* the extensions of supported_extensions, written out in lower case
LowerCaseExtensions ==
    { <<".", x>> : x \in {"pdf", "docx", "doc", "txt", "md", "html", "htm",
                          "rtf", "odt", "csv", "xlsx", "xls", "pptx", "ppt"} }

\* the counters st agree with the files counted so far
StatsAgree(st, counted) ==
    /\ DOMAIN st = {"total_files", "supported_files", "file_types", "total_size"}
    /\ st.supported_files <= st.total_files
    /\ SumCounts(st.file_types, DOMAIN st.file_types) = st.supported_files
    /\ DOMAIN st.file_types \subseteq LowerCaseExtensions
    /\ st.total_files = Len(counted)
    /\ st.total_size = SumSizes(counted)

\* C12: get_file_stats: for an existing directory, at every step of the walk
\* and in the result, supported_files <= total_files, the counts in
\* file_types sum to supported_files, every key of file_types is a supported
\* lower-case extension, and total_size is the sum of the sizes of the files
\* counted; for a path that does not exist the result is {"error":
\* "Directory does not exist"} with no counters.
C12_FileStats ==
    /\ statsRun.pc = "walking" => StatsAgree(statsRun.stats, statsRun.counted)
    /\ statsRun.pc = "done" =>
           LET d == DirOf(statsRun.directory_path) IN
           IF fs[d].kind # "absent"
           THEN /\ StatsAgree(statsRun.result, statsRun.counted)
                /\ Range(statsRun.counted) =
                       {p \in Paths : IsUnder(p, d) /\ fs[p].kind = "file"}
                /\ statsRun.result = get_file_stats(statsRun.directory_path)
           ELSE statsRun.result = [error |-> <<"Directory does not exist">>]

C12_Witness ==
    /\ statsRun.pc = "done"
    /\ statsRun.directory_path = None
    /\ statsRun.result.total_files = 5
    /\ statsRun.result.supported_files = 3
    /\ statsRun.result.file_types = [e \in {<<".", "txt">>, <<".", "md">>} |->
                                        IF e = <<".", "txt">> THEN 2 ELSE 1]
    /\ statsRun.result.total_size = 7

\* whether text s begins with text prefix
StartsWith(s, prefix) ==
    Len(s) >= Len(prefix) /\ SubSeq(s, 1, Len(prefix)) = prefix

\* C13: convert_nextcloud_path_to_filesystem confines the result to the
\* user's files directory: for every Nextcloud path and user id of a webhook
\* payload, the path handed to handle_file_created begins with
\* "<NEXTCLOUD_PATH>/<user_id>/files".
C13_PathConfined ==
    hook.trace.called =>
        LET user_id == IF hook.payload.uid = JAbsent THEN <<>>
                       ELSE hook.payload.uid
        IN  StartsWith(hook.trace.file_path,
                       NEXTCLOUD_PATH \o <<"/">> \o user_id \o <<"/", "files">>)

====
